---- MODULE Spec2Model ----
(***************************************************************************)
(* AsyncSpaceTrackClient (spacetrack/aio.py): the request pipeline of one  *)
(* client driven by asyncio coroutines.  Each caller is a coroutine; pc    *)
(* is the line it is suspended at or about to run, stack the labels it     *)
(* returns to, fr its local variables.  The Space-Track service is the     *)
(* environment: every response is drawn from a small set.                  *)
(***************************************************************************)
EXTENDS Integers, Sequences, FiniteSets, TLC

(* ------------------------------ bounds --------------------------------- *)
NumCallers == 2
MaxCalls == 2
MaxKwargs == 2
\* Characters of a response body; pulls on a stream after it has ended.
MaxBody == 3
MaxPullsAtEnd == 2

Callers == 1..NumCallers

(* ------------------------- program constants --------------------------- *)
\* base.SpaceTrackClient.request_classes (the keys): 'download' is the one
\* binary class (aio.py line 113).
RequestClasses == {"tle", "download"}
\* Class names a caller may pass; "nosuch" is not a request class.
ClassNames == RequestClasses \cup {"nosuch"}
\* base.SpaceTrackClient.rest_predicates (names).
RestPredicates == {"format", "limit"}
\* Keyword names a caller may pass.
KeyNames == {"object_id", "format", "bogus"}
\* The 'data' array of a modeldef response, as the set of predicate names.
PredData == {{"epoch"}, {"epoch", "object_id"}}

\* _ratelimited_get retries on this status only.
RetryStatus == 500
\* _raise_for_status maps statuses in [ErrorLow, ErrorHigh).
ErrorLow == 400
ErrorHigh == 600

\* The status codes some class of aiohttp.web_exceptions.__all__ carries.
WebExceptionStatuses ==
    (400..417) \cup {421, 422, 424, 426, 428, 429, 431, 451}
        \cup (500..507) \cup {510, 511}

(* ----------------------------- responses ------------------------------- *)
\* Response bodies:
\*   "json"         a JSON mapping without 'Login' (carries 'data' for modeldef)
\*   "login_failed" the JSON mapping {'Login': 'Failed'}
\*   "text"         text that is not JSON, without the rate-limit marker
\*   "ratelimit"    text that is not JSON, holding 'violated your query rate limit'
Statuses == {200, 418, 500}
Bodies == {"json", "login_failed", "text", "ratelimit"}
NoData == {}
NoResp == [status |-> 0, body |-> "none", data |-> NoData]
\* session.post / session.get raising a transport-level aiohttp error.
ClientError == [status |-> 0, body |-> "ClientError", data |-> NoData]
PlainResponses == {[status |-> s, body |-> b, data |-> NoData] : s \in Statuses, b \in Bodies}
LoginResponses == PlainResponses \cup {ClientError}
QueryResponses == PlainResponses \cup {ClientError}
MetaResponses ==
    {[status |-> s, body |-> b, data |-> NoData] : s \in Statuses, b \in Bodies \ {"json"}}
        \cup {[status |-> s, body |-> "json", data |-> d] : s \in Statuses, d \in PredData}
        \cup {ClientError}

IsJson(body) == body \in {"json", "login_failed"}
HasMarker(body) == body = "ratelimit"

(* ------------------------------- state --------------------------------- *)
VARIABLES
    authenticated,  \* self._authenticated
    predicates,     \* self._predicates: class name -> predicate names
    holding,        \* callers inside `async with self._ratelimiter`
    pc,             \* per caller: the line it is at
    stack,          \* per caller: labels to return to
    fr,             \* per caller: arguments, locals, outcome
    calls,          \* operations started so far
    loginPosts,     \* login POSTs issued so far
    loginOk,        \* some login POST was answered with a success
    fetches,        \* per class: _download_predicate_data GETs started
    writes,         \* per class: assignments to self._predicates[class]
    rd,             \* a response being consumed: buffered, or through a stream handle
    ub,             \* a query URL being built by generic_request
    em              \* a response going through _raise_for_status

\* The client and its callers.
client == <<authenticated, predicates, holding, pc, stack, fr, calls,
            loginPosts, loginOk, fetches, writes>>
\* The consumers of single responses.
aux == <<rd, ub, em>>
vars == <<authenticated, predicates, holding, pc, stack, fr, calls,
          loginPosts, loginOk, fetches, writes, rd, ub, em>>

\* Of the _ratelimited_get call under way: GETs issued, sleeps done, and whether
\* the first answer was a 500 carrying the rate-limit marker.
NoRl == [n |-> 0, slept |-> 0, marked |-> FALSE]
NoNet == [posts |-> 0, mgets |-> 0, qgets |-> 0]

Frame0 ==
    [op |-> "none", class_ |-> "none", iter_lines |-> FALSE,
     iter_content |-> FALSE, kwargs |-> <<>>,
     resp |-> NoResp, retval |-> {}, err |-> "none", result |-> "none",
     login |-> "none", rl |-> NoRl, net |-> NoNet]

\* No response is being consumed.
NoRd ==
    [mode |-> "none", decode |-> FALSE, body |-> <<>>, pending |-> <<>>, out |-> <<>>,
     open |-> FALSE, closes |-> 0, ended |-> FALSE, abandoned |-> FALSE]

\* No URL is being built.
NoUb ==
    [stage |-> "none", class_ |-> "none", preds |-> {}, kwargs |-> <<>>, i |-> 1,
     url |-> <<>>, err |-> "none", sent |-> <<>>]

\* No response is being looked at by _raise_for_status.
NoEm ==
    [stage |-> "none", status |-> 0,
     body |-> [json |-> "invalid", error |-> <<>>, text |-> ""],
     msg |-> <<>>, reason |-> <<>>, raised |-> FALSE]

\* The client after construction.
InitClient ==
    /\ authenticated = FALSE
    /\ predicates = <<>>
    /\ holding = {}
    /\ pc = [c \in Callers |-> "idle"]
    /\ stack = [c \in Callers |-> <<>>]
    /\ fr = [c \in Callers |-> Frame0]
    /\ calls = 0
    /\ loginPosts = 0
    /\ loginOk = FALSE
    /\ fetches = [k \in RequestClasses |-> 0]
    /\ writes = [k \in RequestClasses |-> 0]

Init == InitClient /\ rd = NoRd /\ ub = NoUb /\ em = NoEm

(* ------------------------------ helpers -------------------------------- *)
Top(c) == IF stack[c] = <<>> THEN "done" ELSE stack[c][Len(stack[c])]
Popped(c) == IF stack[c] = <<>> THEN <<>> ELSE SubSeq(stack[c], 1, Len(stack[c]) - 1)
Push(c, label) == Append(stack[c], label)

\* Sequences of distinct keyword names, at most n long (**kwargs).
Kwargs(n) ==
    {kw \in UNION {[1..k -> KeyNames] : k \in 0..n} :
        \A i, j \in 1..Len(kw) : i # j => kw[i] # kw[j]}
Keys(kw) == {kw[i] : i \in 1..Len(kw)}

\* A coroutine returns to its awaiter; an operation's own return ends it.
Return(c) ==
    /\ pc' = [pc EXCEPT ![c] = Top(c)]
    /\ stack' = [stack EXCEPT ![c] = Popped(c)]

\* No frame of the client catches an exception: it ends the operation.
Raise(c) ==
    /\ pc' = [pc EXCEPT ![c] = "done"]
    /\ stack' = [stack EXCEPT ![c] = <<>>]

CanCall(c) == pc[c] = "idle" /\ calls < MaxCalls

(* --------------------------- _raise_for_status ------------------------- *)
\* Lines 313-338: an error is raised only inside the loop over
\* aiohttp.web_exceptions.__all__, for a class whose status_code matches.
RaiseForStatus(status) ==
    /\ ErrorLow <= status /\ status < ErrorHigh
    /\ status \in WebExceptionStatuses

(* ------------------------------ authenticate --------------------------- *)
\* What the service answered to a login POST (not what the client made of it).
LoginOutcome(r) ==
    IF r = ClientError THEN "transport"
    ELSE IF ErrorLow <= r.status /\ r.status < ErrorHigh THEN "http_error"
    ELSE IF r.body = "login_failed" THEN "marker"
    ELSE IF ~IsJson(r.body) THEN "bad_body"
    ELSE "ok"

\* authenticate() without the test of line 46.
NeedsLogin_Always == TRUE

\* Line 46.
NeedsLogin == ~authenticated

\* Lines 49-57: the error authenticate() ends with, "none" when it reaches line 59.
AuthError(r) ==
    IF r = ClientError THEN "ClientError"
    ELSE IF RaiseForStatus(r.status) THEN "HTTPError"
    ELSE IF ~IsJson(r.body) THEN "JSONDecodeError"
    ELSE IF r.body = "login_failed" THEN "AuthenticationError"
    ELSE "none"

CallAuthenticate(c) ==
    /\ CanCall(c)
    /\ calls' = calls + 1
    /\ fr' = [fr EXCEPT ![c] = [Frame0 EXCEPT !.op = "authenticate"]]
    /\ pc' = [pc EXCEPT ![c] = "auth"]
    /\ stack' = [stack EXCEPT ![c] = <<>>]
    /\ UNCHANGED <<authenticated, predicates, holding, loginPosts, loginOk, fetches, writes>>

\* Lines 46-49: the check and the POST are issued without suspending in between.
Authenticate(c) ==
    /\ pc[c] = "auth"
    /\ IF NeedsLogin
       THEN /\ loginPosts' = loginPosts + 1
            /\ fr' = [fr EXCEPT ![c].net.posts = @ + 1]
            /\ pc' = [pc EXCEPT ![c] = "auth_post"]
            /\ UNCHANGED stack
       ELSE /\ Return(c)
            /\ UNCHANGED <<loginPosts, fr>>
    /\ UNCHANGED <<authenticated, predicates, holding, calls, loginOk, fetches, writes>>

\* Lines 49-59: the POST's answer r arrives.
AuthenticateResponse(c, r) ==
    /\ pc[c] = "auth_post"
    /\ loginOk' = (loginOk \/ LoginOutcome(r) = "ok")
    /\ IF AuthError(r) # "none"
       THEN /\ fr' = [fr EXCEPT ![c].login = LoginOutcome(r),
                                ![c].err = AuthError(r)]
            /\ Raise(c)
            /\ UNCHANGED authenticated
       ELSE /\ fr' = [fr EXCEPT ![c].login = LoginOutcome(r)]
            /\ authenticated' = TRUE
            /\ Return(c)
    /\ UNCHANGED <<predicates, holding, calls, loginPosts, fetches, writes>>

(* ---------------------------- _ratelimited_get ------------------------- *)
\* The answers to choose from for the GET caller c is about to issue.
GetResponses(c, meta, query) == IF Top(c) = "dl_status" THEN meta ELSE query

\* The GET counted for the operation: a modeldef GET or a query GET.
CountGet(c, f) ==
    IF Top(c) = "dl_status"
    THEN [f EXCEPT !.net.mgets = @ + 1]
    ELSE [f EXCEPT !.net.qgets = @ + 1]

\* The service's answer to a query rate limit violation.
IsRateLimit500(r) == r.status = 500 /\ r.body = "ratelimit"

\* _ratelimited_get without the test of line 181.
ShouldRetry_AnyError(r) == r.status = RetryStatus

\* Lines 176-181.
ShouldRetry(r) == r.status = RetryStatus /\ HasMarker(r.body)

\* The `async with` block of line 167 never left.
Release_Keep(c) == holding

\* Lines 167-168, 188-189: the `async with self._ratelimiter` block is left.
Release(c) == holding \ {c}

\* Line 167: enter `async with self._ratelimiter`.
RatelimitedGetAcquire(c) ==
    /\ pc[c] = "rl"
    /\ holding' = holding \cup {c}
    /\ pc' = [pc EXCEPT ![c] = "rl_get"]
    /\ UNCHANGED <<authenticated, predicates, stack, fr, calls, loginPosts, loginOk,
                   fetches, writes>>

\* Line 168: the GET and its answer r; the limiter is left either way.
RatelimitedGet(c, r) ==
    /\ pc[c] = "rl_get"
    /\ holding' = Release(c)
    /\ LET f == [CountGet(c, fr[c]) EXCEPT !.rl.n = @ + 1, !.rl.marked = IsRateLimit500(r)]
       IN IF r = ClientError
          THEN /\ fr' = [fr EXCEPT ![c] = [f EXCEPT !.err = "ClientError"]]
               /\ Raise(c)
          ELSE /\ fr' = [fr EXCEPT ![c] = [f EXCEPT !.resp = r]]
               /\ pc' = [pc EXCEPT ![c] = "rl_check"]
               /\ UNCHANGED stack
    /\ UNCHANGED <<authenticated, predicates, calls, loginPosts, loginOk, fetches, writes>>

\* Lines 176-185 and 191: retry only on a 500 that carries the marker.
RatelimitedGetCheck(c) ==
    /\ pc[c] = "rl_check"
    /\ IF ShouldRetry(fr[c].resp)
       THEN /\ pc' = [pc EXCEPT ![c] = "rl_sleep"]
            /\ UNCHANGED stack
       ELSE Return(c)
    /\ UNCHANGED <<authenticated, predicates, holding, fr, calls, loginPosts, loginOk,
                   fetches, writes>>

\* Line 185: asyncio.sleep(self._ratelimiter.period) is over.
RatelimitedGetSleep(c) ==
    /\ pc[c] = "rl_sleep"
    /\ fr' = [fr EXCEPT ![c].rl.slept = @ + 1]
    /\ pc' = [pc EXCEPT ![c] = "rl_retry"]
    /\ UNCHANGED <<authenticated, predicates, holding, stack, calls, loginPosts, loginOk,
                   fetches, writes>>

\* Line 188.
RatelimitedGetReacquire(c) ==
    /\ pc[c] = "rl_retry"
    /\ holding' = holding \cup {c}
    /\ pc' = [pc EXCEPT ![c] = "rl_retry_get"]
    /\ UNCHANGED <<authenticated, predicates, stack, fr, calls, loginPosts, loginOk,
                   fetches, writes>>

\* The retry turned into a loop: the second answer is tested like the first.
AfterRetry_Again(c) ==
    IF fr[c].rl.n < 2
    THEN pc' = [pc EXCEPT ![c] = "rl_check"] /\ UNCHANGED stack
    ELSE Return(c)

\* Line 191: after the second GET the answer is returned.
AfterRetry(c) == Return(c)

\* Lines 189-191: the second GET; its answer is returned as it is.
RatelimitedGetRetry(c, r) ==
    /\ pc[c] = "rl_retry_get"
    /\ holding' = Release(c)
    /\ LET f == [CountGet(c, fr[c]) EXCEPT !.rl.n = @ + 1]
       IN IF r = ClientError
          THEN /\ fr' = [fr EXCEPT ![c] = [f EXCEPT !.err = "ClientError"]]
               /\ Raise(c)
          ELSE /\ fr' = [fr EXCEPT ![c] = [f EXCEPT !.resp = r]]
               /\ AfterRetry(c)
    /\ UNCHANGED <<authenticated, predicates, calls, loginPosts, loginOk, fetches, writes>>

(* ------------------ _download_predicate_data, get_predicates ----------- *)
CallGetPredicates(c, class_) ==
    /\ CanCall(c)
    /\ calls' = calls + 1
    /\ fr' = [fr EXCEPT ![c] = [Frame0 EXCEPT !.op = "get_predicates", !.class_ = class_]]
    /\ pc' = [pc EXCEPT ![c] = "gp"]
    /\ stack' = [stack EXCEPT ![c] = <<>>]
    /\ UNCHANGED <<authenticated, predicates, holding, loginPosts, loginOk, fetches, writes>>

\* Line 214.
IsCached(class_) == class_ \in DOMAIN predicates

\* Lines 214-215.
GetPredicates(c) ==
    /\ pc[c] = "gp"
    /\ IF IsCached(fr[c].class_)
       THEN /\ pc' = [pc EXCEPT ![c] = "gp_ret"]
            /\ UNCHANGED stack
       ELSE /\ pc' = [pc EXCEPT ![c] = "dl"]
            /\ stack' = [stack EXCEPT ![c] = Push(c, "gp_store")]
    /\ UNCHANGED <<authenticated, predicates, holding, fr, calls, loginPosts, loginOk,
                   fetches, writes>>

\* Line 197.
DownloadPredicateData(c) ==
    /\ pc[c] = "dl"
    /\ pc' = [pc EXCEPT ![c] = "auth"]
    /\ stack' = [stack EXCEPT ![c] = Push(c, "dl_get")]
    /\ UNCHANGED <<authenticated, predicates, holding, fr, calls, loginPosts, loginOk,
                   fetches, writes>>

\* Lines 198-203: request_classes[class_] raises KeyError for an unknown class.
DownloadPredicateDataGet(c) ==
    /\ pc[c] = "dl_get"
    /\ IF fr[c].class_ \notin RequestClasses
       THEN /\ fr' = [fr EXCEPT ![c].err = "KeyError"]
            /\ Raise(c)
            /\ UNCHANGED fetches
       ELSE /\ fetches' = [fetches EXCEPT ![fr[c].class_] = @ + 1]
            /\ fr' = [fr EXCEPT ![c].rl = NoRl]
            /\ pc' = [pc EXCEPT ![c] = "rl"]
            /\ stack' = [stack EXCEPT ![c] = Push(c, "dl_status")]
    /\ UNCHANGED <<authenticated, predicates, holding, calls, loginPosts, loginOk, writes>>

\* Lines 205-208: the error the modeldef answer ends in, "none" when data is returned.
DownloadError(r) ==
    IF RaiseForStatus(r.status) THEN "HTTPError"
    ELSE IF ~IsJson(r.body) THEN "JSONDecodeError"
    ELSE IF r.body # "json" THEN "KeyError"
    ELSE "none"

\* Lines 205-208.
DownloadPredicateDataStatus(c) ==
    /\ pc[c] = "dl_status"
    /\ IF DownloadError(fr[c].resp) # "none"
       THEN /\ fr' = [fr EXCEPT ![c].err = DownloadError(fr[c].resp)]
            /\ Raise(c)
       ELSE /\ fr' = [fr EXCEPT ![c].retval = fr[c].resp.data, ![c].resp = NoResp]
            /\ Return(c)
    /\ UNCHANGED <<authenticated, predicates, holding, calls, loginPosts, loginOk,
                   fetches, writes>>

\* Line 217: self._predicates[class_] = predicate_objects.
StorePredicates(class_, data) ==
    [k \in DOMAIN predicates \cup {class_} |-> IF k = class_ THEN data ELSE predicates[k]]

\* Lines 216-217.
GetPredicatesStore(c) ==
    /\ pc[c] = "gp_store"
    /\ predicates' = StorePredicates(fr[c].class_, fr[c].retval)
    /\ writes' = [writes EXCEPT ![fr[c].class_] = @ + 1]
    /\ pc' = [pc EXCEPT ![c] = "gp_ret"]
    /\ UNCHANGED <<authenticated, holding, stack, fr, calls, loginPosts, loginOk, fetches>>

\* Line 219.
GetPredicatesReturn(c) ==
    /\ pc[c] = "gp_ret"
    /\ fr' = [fr EXCEPT ![c].retval = predicates[fr[c].class_]]
    /\ Return(c)
    /\ UNCHANGED <<authenticated, predicates, holding, calls, loginPosts, loginOk,
                   fetches, writes>>

(* ----------------------------- generic_request ------------------------ *)
CallGenericRequest(c, class_, iter_lines, iter_content, kwargs) ==
    /\ CanCall(c)
    /\ calls' = calls + 1
    /\ fr' = [fr EXCEPT ![c] = [Frame0 EXCEPT !.op = "generic_request", !.class_ = class_,
                                             !.iter_lines = iter_lines,
                                             !.iter_content = iter_content,
                                             !.kwargs = kwargs]]
    /\ pc' = [pc EXCEPT ![c] = "gr_check"]
    /\ stack' = [stack EXCEPT ![c] = <<>>]
    /\ UNCHANGED <<authenticated, predicates, holding, loginPosts, loginOk, fetches, writes>>

\* generic_request taking every class for text.
Decode_Always(class_) == TRUE

\* Line 113.
Decode(class_) == class_ # "download"

\* generic_request without the test of lines 108-109.
ConfigError_NoClassCheck(class_, iter_lines, iter_content) ==
    IF iter_lines /\ iter_content THEN "ValueError"
    ELSE IF class_ = "download" /\ iter_lines THEN "ValueError"
    ELSE "none"

\* Lines 105-119: the three ValueErrors raised before anything is awaited.
ConfigError(class_, iter_lines, iter_content) ==
    IF iter_lines /\ iter_content THEN "ValueError"
    ELSE IF class_ \notin RequestClasses THEN "ValueError"
    ELSE IF ~Decode(class_) /\ iter_lines THEN "ValueError"
    ELSE "none"

\* Lines 105-121.
GenericRequestCheck(c) ==
    /\ pc[c] = "gr_check"
    /\ IF ConfigError(fr[c].class_, fr[c].iter_lines, fr[c].iter_content) # "none"
       THEN /\ fr' = [fr EXCEPT ![c].err =
                         ConfigError(fr[c].class_, fr[c].iter_lines, fr[c].iter_content)]
            /\ Raise(c)
       ELSE /\ pc' = [pc EXCEPT ![c] = "auth"]
            /\ stack' = [stack EXCEPT ![c] = Push(c, "gr_preds")]
            /\ UNCHANGED fr
    /\ UNCHANGED <<authenticated, predicates, holding, calls, loginPosts, loginOk,
                   fetches, writes>>

\* Lines 123-127: request_classes[class_] raises KeyError for an unknown class.
GenericRequestPredicates(c) ==
    /\ pc[c] = "gr_preds"
    /\ IF fr[c].class_ \notin RequestClasses
       THEN /\ fr' = [fr EXCEPT ![c].err = "KeyError"]
            /\ Raise(c)
       ELSE /\ pc' = [pc EXCEPT ![c] = "gp"]
            /\ stack' = [stack EXCEPT ![c] = Push(c, "gr_build")]
            /\ UNCHANGED fr
    /\ UNCHANGED <<authenticated, predicates, holding, calls, loginPosts, loginOk,
                   fetches, writes>>

\* Lines 128-129.
ValidFields(preds) == preds \cup RestPredicates

\* The loop of lines 131-139 looking at the first keyword only.
UnexpectedArgument_FirstOnly(kwargs, preds) ==
    Len(kwargs) > 0 /\ kwargs[1] \notin preds \cup RestPredicates

\* Lines 131-135: the loop raises at the first keyword that is not a valid field.
UnexpectedArgument(kwargs, preds) ==
    \E i \in 1..Len(kwargs) : kwargs[i] \notin ValidFields(preds)

\* Lines 128-143.
GenericRequestBuild(c) ==
    /\ pc[c] = "gr_build"
    /\ IF UnexpectedArgument(fr[c].kwargs, fr[c].retval)
       THEN /\ fr' = [fr EXCEPT ![c].err = "TypeError"]
            /\ Raise(c)
       ELSE /\ fr' = [fr EXCEPT ![c].rl = NoRl]
            /\ pc' = [pc EXCEPT ![c] = "rl"]
            /\ stack' = [stack EXCEPT ![c] = Push(c, "gr_status")]
    /\ UNCHANGED <<authenticated, predicates, holding, calls, loginPosts, loginOk,
                   fetches, writes>>

\* Lines 147-164: what is handed back for a response that passed _raise_for_status.
ResultKind(f) ==
    IF f.iter_lines THEN "line_iterator"
    ELSE IF f.iter_content THEN "chunk_iterator"
    ELSE IF "format" \in Keys(f.kwargs)
         THEN (IF Decode(f.class_) THEN "text" ELSE "bytes")
    ELSE IF IsJson(f.resp.body) THEN "json"
    ELSE "none"

\* Lines 145-164.
GenericRequestStatus(c) ==
    /\ pc[c] = "gr_status"
    /\ LET f == fr[c]
       IN fr' = [fr EXCEPT ![c] =
                   IF RaiseForStatus(f.resp.status) THEN [f EXCEPT !.err = "HTTPError"]
                   ELSE IF ResultKind(f) = "none" THEN [f EXCEPT !.err = "JSONDecodeError"]
                   ELSE [f EXCEPT !.result = ResultKind(f)]]
    /\ Raise(c)
    /\ UNCHANGED <<authenticated, predicates, holding, calls, loginPosts, loginOk,
                   fetches, writes>>

(* ------------------- response bodies and stream handles ---------------- *)
\* A body is a sequence of characters; "CR" and "LF" are '\r' and '\n'.
Alphabet == {"a", "CR", "LF"}

RECURSIVE SeqsUpTo(_, _)
SeqsUpTo(S, n) ==
    IF n = 0 THEN {<<>>}
    ELSE LET shorter == SeqsUpTo(S, n - 1)
         IN  shorter \cup {Append(s, x) : s \in {t \in shorter : Len(t) = n - 1}, x \in S}

BodyTexts == SeqsUpTo(Alphabet, MaxBody)

Tail2(s) == SubSeq(s, 3, Len(s))

\* str.replace('\r\n', '\n'): left to right, every CR LF pair becomes LF.
RECURSIVE ReplaceCRLF(_)
ReplaceCRLF(s) ==
    IF s = <<>> THEN <<>>
    ELSE IF Len(s) >= 2 /\ s[1] = "CR" /\ s[2] = "LF"
         THEN <<"LF">> \o ReplaceCRLF(Tail2(s))
         ELSE <<s[1]>> \o ReplaceCRLF(Tail(s))

\* str.replace('\r', ''): every CR is removed.
RECURSIVE RemoveCR(_)
RemoveCR(s) ==
    IF s = <<>> THEN <<>>
    ELSE IF s[1] = "CR" THEN RemoveCR(Tail(s))
         ELSE <<s[1]>> \o RemoveCR(Tail(s))

\* str.rstrip(chars): trailing characters of the set are removed.
RECURSIVE RStrip(_, _)
RStrip(s, chars) ==
    IF s # <<>> /\ s[Len(s)] \in chars
    THEN RStrip(SubSeq(s, 1, Len(s) - 1), chars)
    ELSE s

RECURSIVE Flatten(_)
Flatten(ss) == IF ss = <<>> THEN <<>> ELSE Head(ss) \o Flatten(Tail(ss))

\* Every way the transport can deliver a body as non-empty chunks (iter_chunked).
RECURSIVE Splits(_)
Splits(s) ==
    IF s = <<>> THEN {<<>>}
    ELSE UNION { { <<SubSeq(s, 1, k)>> \o rest : rest \in Splits(SubSeq(s, k + 1, Len(s))) }
                 : k \in 1..Len(s) }

\* The lines the transport delivers (StreamReader.readline): each ends after an LF.
RECURSIVE FirstLF(_, _)
FirstLF(s, i) ==
    IF i > Len(s) THEN Len(s)
    ELSE IF s[i] = "LF" THEN i ELSE FirstLF(s, i + 1)

RECURSIVE Lines(_)
Lines(s) ==
    IF s = <<>> THEN <<>>
    ELSE LET k == FirstLF(s, 1)
         IN  <<SubSeq(s, 1, k)>> \o Lines(SubSeq(s, k + 1, Len(s)))

\* generic_request, buffered raw mode ('format' given, no stream flag).
RawDecode(decode, body) == IF decode THEN RemoveCR(body) ELSE body

\* _AsyncLineIterator.__anext__ on one line.
LineDecode(decode, data) == IF decode THEN RStrip(data, {"CR", "LF"}) ELSE data

\* _AsyncChunkIterator.__anext__ without the final rstrip.
ChunkDecode_NoStrip(decode, data) == IF decode THEN ReplaceCRLF(data) ELSE data

\* _AsyncChunkIterator.__anext__ on one chunk.
ChunkDecode(decode, data) ==
    IF decode THEN RStrip(ReplaceCRLF(data), {"CR"}) ELSE data

StreamModes == {"lines", "chunks"}

\* A response as generic_request hands it over: read whole, or wrapped in a handle.
\* Line streaming of the undecoded class is refused, so a line handle decodes.
Responses ==
    { [NoRd EXCEPT !.mode = "raw", !.decode = d, !.body = b, !.open = TRUE]
        : d \in BOOLEAN, b \in BodyTexts }
    \cup
    { [NoRd EXCEPT !.mode = "lines", !.decode = TRUE, !.body = b,
                   !.pending = Lines(b), !.open = TRUE] : b \in BodyTexts }
    \cup
    UNION { { [NoRd EXCEPT !.mode = "chunks", !.decode = d, !.body = b,
                           !.pending = p, !.open = TRUE] : p \in Splits(b) }
            : d \in BOOLEAN, b \in BodyTexts }

\* generic_request: data = await resp.text(); data = data.replace('\r', '')
\* or data = await resp.read().
ReadBody ==
    /\ rd.mode = "raw" /\ ~rd.ended
    /\ rd' = [rd EXCEPT !.out = <<RawDecode(rd.decode, rd.body)>>, !.ended = TRUE]
    /\ UNCHANGED <<client, ub, em>>

\* except StopAsyncIteration: response.close(), and the signal goes on to the consumer;
\* this variant lets the signal through without closing.
OnStop_NoClose(r) == [r EXCEPT !.ended = TRUE]

\* except StopAsyncIteration: self.response.close(); raise
OnStop(r) == [r EXCEPT !.closes = @ + 1, !.open = FALSE, !.ended = TRUE]

YieldData(r) ==
    LET data == Head(r.pending)
        item == IF r.mode = "lines" THEN LineDecode(r.decode, data)
                                    ELSE ChunkDecode(r.decode, data)
    IN  [r EXCEPT !.pending = Tail(@), !.out = Append(@, item)]

\* One pull on a stream handle. A transport at end of data keeps signalling the end.
Anext ==
    /\ rd.mode \in StreamModes /\ ~rd.abandoned
    /\ rd.closes < MaxPullsAtEnd
    /\ rd' = IF rd.pending = <<>> THEN OnStop(rd) ELSE YieldData(rd)
    /\ UNCHANGED <<client, ub, em>>

\* The consumer drops the handle before the end of data; neither iterator class
\* defines anything that runs then.
Abandon ==
    /\ rd.mode \in StreamModes /\ ~rd.ended /\ ~rd.abandoned
    /\ rd' = [rd EXCEPT !.abandoned = TRUE]
    /\ UNCHANGED <<client, ub, em>>

(* ------------------------- generic_request: the URL -------------------- *)
\* self.base_url and request_classes[class_] (base.py).
BaseUrl == "https://www.space-track.org/"
Controller(class_) == IF class_ = "download" THEN "fileshare" ELSE "basicspacedata"

\* Keyword values a caller may pass, written as Python literals.
Values == {"25544", "True", "[1, 2]"}

\* _stringify_predicate_value (operators.py): booleans in lower case, a list as
\* its comma-joined items, anything else as str() gives it.
Stringify(value) ==
    CASE value = "True" -> "true"
      [] value = "[1, 2]" -> "1,2"
      [] OTHER -> value

\* kwargs as the caller supplied them: (name, value) pairs in order, names distinct.
KwargItems(n) ==
    UNION { { [i \in 1..Len(kw) |-> <<kw[i], v[i]>>] : v \in [1..Len(kw) -> Values] }
            : kw \in Kwargs(n) }

\* Line 139 without the stringification of line 137.
UrlAppend_Raw(url, key, value) == url \o <<"/", key, "/", value>>

\* Lines 137-139: url += '/{key}/{value}' with the stringified value.
UrlAppend(url, key, value) == url \o <<"/", key, "/", Stringify(value)>>

\* Lines 124-125.
UrlBase(class_) == <<BaseUrl, Controller(class_), "/query/class/", class_>>

\* generic_request at line 123, after the checks, the login and with the
\* class's predicates at hand.
UrlBuilds ==
    { [NoUb EXCEPT !.stage = "entry", !.class_ = k, !.preds = p, !.kwargs = kw]
        : k \in RequestClasses, p \in PredData, kw \in KwargItems(MaxKwargs) }

\* Lines 123-125.
UrlStart ==
    /\ ub.stage = "entry"
    /\ ub' = [ub EXCEPT !.stage = "loop", !.url = UrlBase(ub.class_)]
    /\ UNCHANGED <<client, rd, em>>

\* Lines 131-139: one turn of the loop over kwargs.items().
UrlKeyword ==
    /\ ub.stage = "loop" /\ ub.i <= Len(ub.kwargs)
    /\ LET key == ub.kwargs[ub.i][1]
           value == ub.kwargs[ub.i][2]
       IN  ub' = IF key \notin ValidFields(ub.preds)
                 THEN [ub EXCEPT !.stage = "done", !.err = "TypeError"]
                 ELSE [ub EXCEPT !.i = @ + 1, !.url = UrlAppend(@, key, value)]
    /\ UNCHANGED <<client, rd, em>>

\* Line 143: the URL handed to _ratelimited_get.
UrlSend ==
    /\ ub.stage = "loop" /\ ub.i > Len(ub.kwargs)
    /\ ub' = [ub EXCEPT !.stage = "done", !.sent = ub.url]
    /\ UNCHANGED <<client, rd, em>>

(* ------------------- _raise_for_status: the error's reason ------------- *)
ErrStatuses == {200, 400, 401, 404, 418, 500, 503}

\* response.reason
ReasonPhrase(status) ==
    CASE status = 200 -> "OK"
      [] status = 400 -> "Bad Request"
      [] status = 401 -> "Unauthorized"
      [] status = 404 -> "Not Found"
      [] status = 418 -> "I'm a teapot"
      [] status = 500 -> "Internal Server Error"
      [] OTHER -> "Service Unavailable"

\* Response bodies: what response.json() makes of the body ("mapping", another
\* JSON value, or not JSON), the mapping's 'error' member (<<>> when it has
\* none), and the raw text.
ErrBodies ==
    { [json |-> "mapping", error |-> <<"class not found">>,
       text |-> "{\"error\": \"class not found\"}"],
      [json |-> "mapping", error |-> <<"">>, text |-> "{\"error\": \"\"}"],
      [json |-> "mapping", error |-> <<>>, text |-> "{}"],
      [json |-> "other", error |-> <<>>, text |-> "[]"],
      [json |-> "invalid", error |-> <<>>, text |-> "violated your query rate limit"],
      [json |-> "invalid", error |-> <<>>, text |-> ""] }

Separator == "\nSpace-Track response:\n"

\* Python truthiness of spacetrack_error_msg; <<>> stands for None.
Falsy(msg) == msg = <<>> \/ msg = <<"">>

\* Lines 318-323.
JsonError(body) == IF body.json = "mapping" THEN body.error ELSE <<>>

\* Line 325 turned off: the text of the body is never looked at.
NeedsText_Never(msg) == FALSE

\* Line 325.
NeedsText(msg) == Falsy(msg)

\* Responses handed to _raise_for_status.
ErrInputs ==
    { [NoEm EXCEPT !.stage = "entry", !.status = s, !.body = b]
        : s \in ErrStatuses, b \in ErrBodies }

\* Lines 313-316.
ErrCheck ==
    /\ em.stage = "entry"
    /\ em' = IF ErrorLow <= em.status /\ em.status < ErrorHigh
             THEN [em EXCEPT !.stage = "json", !.reason = <<ReasonPhrase(em.status)>>]
             ELSE [em EXCEPT !.stage = "done"]
    /\ UNCHANGED <<client, rd, ub>>

\* Lines 318-323.
ErrJson ==
    /\ em.stage = "json"
    /\ em' = [em EXCEPT !.stage = "text", !.msg = JsonError(em.body)]
    /\ UNCHANGED <<client, rd, ub>>

\* Lines 325-329.
ErrText ==
    /\ em.stage = "text"
    /\ LET msg == IF NeedsText(em.msg) THEN <<em.body.text>> ELSE em.msg
       IN  em' = [em EXCEPT !.stage = "raise", !.msg = msg,
                            !.reason = IF Falsy(msg) THEN @ ELSE @ \o <<Separator>> \o msg]
    /\ UNCHANGED <<client, rd, ub>>

\* Lines 331-338.
ErrRaise ==
    /\ em.stage = "raise"
    /\ em' = [em EXCEPT !.stage = "done", !.raised = RaiseForStatus(em.status)]
    /\ UNCHANGED <<client, rd, ub>>

(* ---------------------------- specifications --------------------------- *)
\* What a started operation does next, the service answering from the given sets.
Step(c, login, meta, query) ==
    \/ Authenticate(c)
    \/ \E r \in login : AuthenticateResponse(c, r)
    \/ GenericRequestCheck(c)
    \/ GenericRequestPredicates(c)
    \/ GetPredicates(c)
    \/ DownloadPredicateData(c)
    \/ DownloadPredicateDataGet(c)
    \/ RatelimitedGetAcquire(c)
    \/ \E r \in GetResponses(c, meta, query) : RatelimitedGet(c, r)
    \/ RatelimitedGetCheck(c)
    \/ RatelimitedGetSleep(c)
    \/ RatelimitedGetReacquire(c)
    \/ \E r \in GetResponses(c, meta, query) : RatelimitedGetRetry(c, r)
    \/ DownloadPredicateDataStatus(c)
    \/ GetPredicatesStore(c)
    \/ GetPredicatesReturn(c)
    \/ GenericRequestBuild(c)
    \/ GenericRequestStatus(c)

\* A caller starts a generic_request with any arguments.
CallRequest(c) ==
    \E class_ \in ClassNames, il, ic \in BOOLEAN, kw \in Kwargs(MaxKwargs) :
        CallGenericRequest(c, class_, il, ic, kw)

\* A caller starts any operation with any arguments.
Call(c) ==
    \/ CallAuthenticate(c)
    \/ \E class_ \in ClassNames : CallGetPredicates(c, class_)
    \/ CallRequest(c)

\* The caller has taken the operation's result or error: it may call again.
Finish(c) ==
    /\ pc[c] = "done"
    /\ pc' = [pc EXCEPT ![c] = "idle"]
    /\ fr' = [fr EXCEPT ![c] = Frame0]
    /\ UNCHANGED <<authenticated, predicates, holding, stack, calls, loginPosts, loginOk,
                   fetches, writes>>

\* No operation is under way.
Quiet == \A c \in Callers : pc[c] \in {"idle", "done"}

\* One caller, one operation after the other.
NextSeq ==
    /\ \/ Quiet /\ Call(1)
       \/ Step(1, LoginResponses, MetaResponses, QueryResponses)
       \/ Finish(1)
    /\ UNCHANGED aux
SpecSeq == Init /\ [][NextSeq]_vars

\* The caller's coroutine is resumed whenever it can go on: the limiter grants
\* every acquisition and every network call and sleep comes to an end.
Progress == Step(1, LoginResponses, MetaResponses, QueryResponses) /\ UNCHANGED aux

SpecSeqFair == SpecSeq /\ WF_vars(Progress)

\* Concurrent callers on one class, and the answers their races need: a login
\* that succeeds, fails or ends in an error status, a modeldef and a query
\* answer that succeed or hit the rate limit.
CallConc(c) ==
    \/ CallAuthenticate(c)
    \/ CallGetPredicates(c, "tle")
    \/ CallGenericRequest(c, "tle", FALSE, FALSE, <<>>)

ConcLogin ==
    {r \in LoginResponses :
        <<r.status, r.body>> \in {<<200, "json">>, <<200, "login_failed">>, <<418, "json">>}}
ConcMeta ==
    {r \in MetaResponses : <<r.status, r.body>> \in {<<200, "json">>, <<500, "ratelimit">>}}
ConcQuery ==
    {r \in QueryResponses : <<r.status, r.body>> \in {<<200, "json">>, <<500, "ratelimit">>}}

Next ==
    /\ \E c \in Callers :
          \/ CallConc(c)
          \/ Step(c, ConcLogin, ConcMeta, ConcQuery)
          \/ Finish(c)
    /\ UNCHANGED aux
Spec == Init /\ [][Next]_vars

\* One response and its consumer.
InitBody == InitClient /\ rd \in Responses /\ ub = NoUb /\ em = NoEm

NextBody == ReadBody \/ Anext \/ Abandon

SpecBody == InitBody /\ [][NextBody]_vars

\* One URL being built.
InitUrl == InitClient /\ rd = NoRd /\ ub \in UrlBuilds /\ em = NoEm

NextUrl == UrlStart \/ UrlKeyword \/ UrlSend

SpecUrl == InitUrl /\ [][NextUrl]_vars

\* One response going through _raise_for_status.
InitErr == InitClient /\ rd = NoRd /\ ub = NoUb /\ em \in ErrInputs

NextErr == ErrCheck \/ ErrJson \/ ErrText \/ ErrRaise

SpecErr == InitErr /\ [][NextErr]_vars

(* ------------------------------- claims -------------------------------- *)
Gets(f) == f.net.mgets + f.net.qgets

\* C1: with one caller at a time, once a login exchange has succeeded no later
\* step issues a login POST, and the authenticated flag, once true, stays true
\* (a successful login sets it).
C1_LoginOnce ==
    [][/\ loginOk => loginPosts' = loginPosts
       /\ authenticated => authenticated'
       /\ loginOk' => authenticated']_vars

\* A second authenticate() after a successful login: it returned without a POST.
C1_Witness ==
    /\ loginOk /\ authenticated /\ loginPosts = 1 /\ calls = 2
    /\ pc[1] = "done" /\ fr[1].op = "authenticate"
    /\ fr[1].err = "none" /\ fr[1].net.posts = 0

\* C2: a login exchange answered with the failure marker, a transport error or
\* an HTTP error status ends authenticate() with the matching error and leaves
\* the authenticated flag false (so the next call posts again).
C2_FailedLoginRaises ==
    \A c \in Callers :
        /\ fr[c].login = "marker" =>
              pc[c] = "done" /\ fr[c].err = "AuthenticationError" /\ ~authenticated
        /\ fr[c].login = "transport" =>
              pc[c] = "done" /\ fr[c].err = "ClientError" /\ ~authenticated
        /\ fr[c].login = "http_error" =>
              pc[c] = "done" /\ fr[c].err = "HTTPError" /\ ~authenticated

\* C3: in every interleaving a GET is issued only after a login exchange has
\* succeeded, and a caller whose login exchange did not succeed issues no GET.
C3_GetOnlyAfterLogin ==
    [][\A c \in Callers :
          /\ Gets(fr'[c]) > Gets(fr[c]) => loginOk
          /\ fr'[c].login \notin {"none", "ok"} => Gets(fr'[c]) = 0]_vars

\* C4: the login exchange is single-flight: no two login POSTs are ever
\* outstanding at once on one client.
C4_SingleFlightLogin == Cardinality({c \in Callers : pc[c] = "auth_post"}) <= 1

\* C5: for any interleaving of get_predicates calls the cache entry of a class
\* is written at most once.
C5_SingleFlightPredicates == \A k \in RequestClasses : writes[k] <= 1

\* C6: one _ratelimited_get call issues a second GET exactly when the first answer
\* is a 500 carrying the rate-limit marker, and then only after one sleep; it
\* never issues a third, whatever the second answer is.
C6_SingleRetry ==
    \A c \in Callers :
        LET rl == fr[c].rl
        IN /\ rl.n <= 2 /\ rl.slept <= 1
           /\ rl.n = 2 => rl.marked /\ rl.slept = 1
           /\ rl.slept = 1 => rl.marked
           /\ pc[c] \in {"dl_status", "gr_status"} => rl.n = (IF rl.marked THEN 2 ELSE 1)

\* A retried query GET answered by the rate-limit 500 again: it is returned.
C6_Witness ==
    /\ pc[1] = "gr_status" /\ fr[1].rl.n = 2 /\ fr[1].rl.slept = 1
    /\ fr[1].resp.status = 500 /\ fr[1].resp.body = "ratelimit"

\* The keyword names of caller c that are fields of its class, as cached.
AllValid(c) ==
    /\ fr[c].class_ \in DOMAIN predicates
    /\ Keys(fr[c].kwargs) \subseteq predicates[fr[c].class_] \cup RestPredicates

\* C7: generic_request issues its query GET only when every keyword name is a
\* predicate of the class or a rest predicate; with a name outside that set it
\* ends in the unexpected-argument error (TypeError) without a query GET.
C7_OnlyValidFields ==
    [][\A c \in Callers :
          /\ fr'[c].net.qgets > 0 => AllValid(c)'
          /\ (pc[c] = "gr_build" /\ pc'[c] # "gr_build" /\ ~AllValid(c)) =>
                /\ pc'[c] = "done" /\ fr'[c].err = "TypeError"
                /\ fr'[c].net.qgets = 0]_vars

\* 'object_id' was passed, the fetched modeldef does not list it: TypeError.
C7_Witness ==
    /\ pc[1] = "done" /\ fr[1].op = "generic_request" /\ fr[1].err = "TypeError"
    /\ fr[1].kwargs = <<"format", "object_id">> /\ fr[1].net.mgets = 1
    /\ fr[1].net.qgets = 0 /\ fr[1].class_ = "tle"
    /\ "tle" \in DOMAIN predicates /\ predicates["tle"] = {"epoch"}

\* Caller c's step leaves the session as it was and performs no network call.
NoNetworkNoChange(c) ==
    /\ fr'[c].net = NoNet /\ loginPosts' = loginPosts /\ fetches' = fetches
    /\ authenticated' = authenticated /\ predicates' = predicates

\* C8: generic_request with a class name that is no request class ends in a
\* ValueError without any network call and without touching the authenticated
\* flag or the predicate cache.
C8_UnknownClassFailsFast ==
    [][\A c \in Callers :
          (pc[c] = "gr_check" /\ pc'[c] # "gr_check" /\ fr[c].class_ \notin RequestClasses) =>
             /\ pc'[c] = "done" /\ fr'[c].err = "ValueError"
             /\ NoNetworkNoChange(c)]_vars

\* An unknown class on a session that is logged in and has 'tle' cached.
C8_Witness ==
    /\ pc[1] = "done" /\ fr[1].op = "generic_request" /\ fr[1].class_ = "nosuch"
    /\ ~fr[1].iter_lines /\ fr[1].err = "ValueError" /\ fr[1].net = NoNet
    /\ authenticated /\ "tle" \in DOMAIN predicates

\* C9: generic_request ends in a ValueError before any network call when both
\* iter_lines and iter_content are set, for every class name, and when
\* iter_lines is set for the class 'download'.
C9_StreamFlagsFailFast ==
    [][\A c \in Callers :
          (/\ pc[c] = "gr_check" /\ pc'[c] # "gr_check"
           /\ \/ fr[c].iter_lines /\ fr[c].iter_content
              \/ fr[c].iter_lines /\ fr[c].class_ = "download") =>
             /\ pc'[c] = "done" /\ fr'[c].err = "ValueError"
             /\ NoNetworkNoChange(c)]_vars

\* iter_lines alone on 'download' was refused.
C9_Witness ==
    /\ pc[1] = "done" /\ fr[1].op = "generic_request" /\ fr[1].class_ = "download"
    /\ fr[1].iter_lines /\ ~fr[1].iter_content
    /\ fr[1].err = "ValueError" /\ fr[1].net = NoNet

\* C10: every response with a status in [400, 600) that reaches
\* _raise_for_status ends the operation in an HTTP error; none is decoded as
\* a success.
C10_ErrorStatusRaises ==
    [][\A c \in Callers :
          (/\ pc[c] \in {"dl_status", "gr_status"} /\ pc'[c] # pc[c]
           /\ ErrorLow <= fr[c].resp.status /\ fr[c].resp.status < ErrorHigh) =>
             pc'[c] = "done" /\ fr'[c].err = "HTTPError"]_vars

\* C11: a stream handle that the consumer abandons before the end of data, and
\* for which nothing is left to run, has had its response closed.
C11_AbandonCloses ==
    (rd.abandoned /\ ~ENABLED NextBody) => rd.closes > 0

\* C12: the step on which a stream handle signals the end of the sequence finds
\* no data left, closes the response and yields nothing; every step after it
\* signals the end again, yields nothing, leaves the connection closed and
\* leaves the client (its requests included) as it was.
C12_EndIsFinal ==
    [][/\ (rd.mode \in StreamModes /\ ~rd.ended /\ rd'.ended) =>
             (rd.pending = <<>> /\ rd'.closes >= 1 /\ ~rd'.open /\ rd'.out = rd.out)
       /\ (rd.mode \in StreamModes /\ rd.ended) =>
             (rd'.ended /\ ~rd'.open /\ rd'.out = rd.out /\ rd'.pending = <<>>
              /\ UNCHANGED client)]_vars

C12_Witness ==
    /\ rd.mode = "chunks" /\ rd.ended /\ rd.closes = 2
    /\ Len(rd.out) = 2

\* C13: a modeldef fetch that fails (transport error, or an answer with an HTTP
\* error status) ends the call with an error and stores nothing, and a class
\* without an entry is fetched by the next get_predicates; once a class has an
\* entry, get_predicates makes no network call and returns the stored entry.
C13_FetchFailureNotCached ==
    [][\A c \in Callers :
        /\ (/\ pc[c] = "dl_status"
            /\ ErrorLow <= fr[c].resp.status /\ fr[c].resp.status < ErrorHigh)
              => (pc'[c] = "done" /\ fr'[c].err # "none")
        /\ (pc'[c] = "done" /\ fr'[c].err # "none") => predicates' = predicates
        /\ (pc[c] = "gp" /\ ~IsCached(fr[c].class_)) => pc'[c] = "dl"
        /\ (pc[c] = "gp" /\ IsCached(fr[c].class_)) => pc'[c] = "gp_ret"
        /\ pc[c] = "gp_ret" =>
              /\ fr'[c].retval = predicates[fr[c].class_]
              /\ fr'[c].net = fr[c].net
              /\ UNCHANGED <<predicates, fetches, loginPosts>>]_vars

\* C14: a response read whole in raw mode yields, for a text class, the body with
\* every CR LF pair replaced by one LF and nothing else altered, and for the
\* undecoded class the body itself.
C14_RawNormalizesCRLF ==
    (rd.mode = "raw" /\ rd.ended) =>
        rd.out = <<IF rd.decode THEN ReplaceCRLF(rd.body) ELSE rd.body>>

\* C15: the URL handed to the rate-limited GET is base_url, the class's
\* controller, '/query/class/' and the class, followed by one '/name/value'
\* segment per keyword argument in the order supplied, the value stringified.
C15_UrlLayout ==
    (ub.stage = "done" /\ ub.err = "none") =>
        ub.sent = <<BaseUrl, Controller(ub.class_), "/query/class/", ub.class_>>
                    \o Flatten([i \in 1..Len(ub.kwargs) |->
                                  <<"/", ub.kwargs[i][1], "/", Stringify(ub.kwargs[i][2])>>])

C15_Witness ==
    /\ ub.stage = "done" /\ ub.err = "none"
    /\ ub.kwargs = << <<"object_id", "[1, 2]">>, <<"format", "True">> >>
    /\ Len(ub.sent) = 12

\* C16: the reason of an error raised for a response is the response's reason
\* phrase, followed by the separator and the service message: the 'error'
\* member when the body is a JSON mapping with a non-empty one, else the raw
\* text when it is non-empty, else nothing. A 404 answered with
\* {"error": "class not found"} raises with both the phrase and the message.
C16_ErrorReason ==
    /\ em.raised =>
          em.reason =
            <<ReasonPhrase(em.status)>> \o
              (IF em.body.json = "mapping" /\ em.body.error \notin {<<>>, <<"">>}
               THEN <<Separator, em.body.error[1]>>
               ELSE IF em.body.text # "" THEN <<Separator, em.body.text>>
               ELSE <<>>)
    /\ (em.stage = "done" /\ em.status = 404 /\ em.body.error = <<"class not found">>) =>
          /\ em.raised
          /\ em.reason = <<"Not Found", Separator, "class not found">>

C16_Witness ==
    /\ em.raised /\ em.status = 404
    /\ em.body.error = <<"class not found">>

\* C17: with decoding on, no chunk yielded by a chunk stream ends with CR,
\* whatever the body and however the transport split it.
C17_NoTrailingCR ==
    (rd.mode = "chunks" /\ rd.decode) =>
        \A i \in 1..Len(rd.out) :
            rd.out[i] = <<>> \/ rd.out[i][Len(rd.out[i])] # "CR"

C17_Witness ==
    /\ rd.mode = "chunks" /\ rd.decode
    /\ rd.body = <<"a", "CR", "LF">>
    /\ rd.out = << <<"a">>, <<"LF">> >>

\* C18: every GET (metadata fetch, query, retry) is made by a caller that is
\* inside the rate limiter; after its first GET and through the backoff sleep a
\* caller is outside it, so the retry GET is made under an acquisition taken
\* after the sleep.
C18_GetsUnderLimiter ==
    [][\A c \in Callers :
        /\ Gets(fr'[c]) > Gets(fr[c]) =>
              (c \in holding /\ pc[c] \in {"rl_get", "rl_retry_get"})
        /\ pc[c] \in {"rl_check", "rl_sleep", "rl_retry"} => c \notin holding
        /\ (pc[c] = "rl_retry_get" /\ c \in holding) => fr[c].rl.slept = 1]_vars

C18_Witness ==
    /\ pc[1] = "rl_retry_get" /\ 1 \in holding
    /\ fr[1].rl.n = 1 /\ fr[1].rl.slept = 1

\* The most steps a coroutine at a label can take before it returns to its
\* awaiter, the coroutines it awaits included.
StepsLeft(label) ==
    CASE label = "auth_post" -> 1
      [] label = "auth" -> 2
      [] label = "rl_retry_get" -> 1
      [] label = "rl_retry" -> 2
      [] label = "rl_sleep" -> 3
      [] label = "rl_check" -> 4
      [] label = "rl_get" -> 5
      [] label = "rl" -> 6
      [] label = "dl_status" -> 1
      [] label = "dl_get" -> 8
      [] label = "dl" -> 11
      [] label = "gp_ret" -> 1
      [] label = "gp_store" -> 2
      [] label = "gp" -> 14
      [] label = "gr_status" -> 1
      [] label = "gr_build" -> 8
      [] label = "gr_preds" -> 23
      [] label = "gr_check" -> 26
      [] OTHER -> 0

RECURSIVE StepsLeftAll(_)
StepsLeftAll(labels) ==
    IF labels = <<>> THEN 0 ELSE StepsLeft(Head(labels)) + StepsLeftAll(Tail(labels))

\* A bound on the steps left in a caller's operation: its own label and the
\* labels its awaiters resume at.
Rank(label, awaiters) == StepsLeft(label) + StepsLeftAll(awaiters)

\* C19: a generic_request call makes at most one login POST, two metadata GETs
\* and two query GETs, and it ends: until it has ended the caller has a step to
\* take (the limiter granting and the network answering), and every step of
\* the caller lowers a bound on the steps left, which is 26 at the call.
C19_RequestTerminates ==
    [][\A c \in Callers :
        fr[c].op = "generic_request" =>
            /\ fr[c].net.posts <= 1
            /\ fr[c].net.mgets <= 2 /\ fr[c].net.qgets <= 2
            /\ pc[c] # "done" =>
                  /\ ENABLED Step(c, LoginResponses, MetaResponses, QueryResponses)
                  /\ <<pc[c], stack[c], fr[c]>>' # <<pc[c], stack[c], fr[c]>> =>
                        Rank(pc'[c], stack'[c]) < Rank(pc[c], stack[c])]_vars

C19_Witness ==
    /\ pc[1] = "done" /\ fr[1].op = "generic_request" /\ fr[1].err = "none"
    /\ fr[1].net.posts = 1 /\ fr[1].net.mgets = 2 /\ fr[1].net.qgets = 2

\* C20: with decoding on, the chunks yielded by a chunk stream up to its end,
\* concatenated, are the body with every CR LF pair replaced by one LF and
\* nothing else altered, whatever the body and however the transport split it.
C20_ChunksConcatenate ==
    (rd.mode = "chunks" /\ rd.decode /\ rd.ended) =>
        Flatten(rd.out) = ReplaceCRLF(rd.body)

====
